---- MODULE Spec2Model ----
(***************************************************************************)
(* tap-talkable: the three endpoint streams (campaigns, campaign_metrics,  *)
(* traffic_sources), their URL parameters, pagination tokens, HTTP status  *)
(* classification and record post-processing, driven by the extraction     *)
(* framework's request loop.                                               *)
(*                                                                         *)
(* Time is counted in ticks; TicksPerDay ticks make a day.  A datetime is  *)
(* a record [wall, tz]: wall is the wall-clock reading in ticks, tz is     *)
(* "utc" for a timezone-aware value and "naive" for one without tzinfo.    *)
(* A calendar date (the text "%Y-%m-%d") is the day number wall \div       *)
(* TicksPerDay, counted from 2024-01-01 = day 0.                           *)
(***************************************************************************)
EXTENDS Integers, Sequences, FiniteSets, TLC

VARIABLES
    now,            \* the wall clock of the run, in UTC ticks
    ticked,         \* how many times the clock advanced during the run
    localOffset,    \* the local timezone's offset from UTC, in ticks
    config_start,   \* config["start_date"], parsed: an aware datetime
    cursor,         \* the incremental state: state key -> bookmarked day
    stream,         \* the stream being synced
    pc,             \* where the request loop of that stream stands
    context,        \* the stream's context (None for a top-level stream)
    next_page_token,\* the token the next request is built from
    request,        \* the request in flight, or the last one answered
    prev_request,   \* the request before it in this pagination sequence
    nreq,           \* requests issued in this pagination sequence
    parent,         \* the campaigns page whose records are being synced
    call,           \* a single call of a stream method: its name and input
    ret             \* what that call returned or raised (None before it)

vars == <<now, ticked, localOffset, config_start, cursor, stream, pc, context,
          next_page_token, request, prev_request, nreq, parent, call, ret>>

----------------------------------------------------------------------------
(* Bounds of the model. *)

TicksPerDay == 2
MaxDay == 209
MaxTicks == 1
MaxRequests == 2
MaxStatus == 640

(* Program constants. *)

WindowDays == 100

----------------------------------------------------------------------------
(* Optional values: None is the empty tuple, a value x is <<x>>. *)

None == <<>>
Some(x) == <<x>>

Min(a, b) == IF a <= b THEN a ELSE b
Max(a, b) == IF a >= b THEN a ELSE b

----------------------------------------------------------------------------
(* Datetimes. *)

Aware(wall) == [wall |-> wall, tz |-> "utc"]
Naive(wall) == [wall |-> wall, tz |-> "naive"]

\* datetime.datetime.now(tz=...): the clock read in UTC for an aware
\* argument, in local time for tzinfo None.
DatetimeNow(tz) == IF tz = "utc" THEN now ELSE now + localOffset

\* dt.strftime("%Y-%m-%d"): the calendar date, time of day and tzinfo dropped.
Strftime(wall) == wall \div TicksPerDay

\* datetime.datetime.strptime(s, "%Y-%m-%d"): midnight of that date, naive.
Strptime(day) == Naive(day * TicksPerDay)

----------------------------------------------------------------------------
(* The calendar, for "%m/%d/%y". *)

Digits == <<"0", "1", "2", "3", "4", "5", "6", "7", "8", "9">>

IsDigit(c) == \E i \in 1..10 : Digits[i] = c
DigitVal(c) == (CHOOSE i \in 1..10 : Digits[i] = c) - 1

AllDigits(s) == \A i \in 1..Len(s) : IsDigit(s[i])

RECURSIVE Num(_)
Num(s) == IF s = <<>> THEN 0
          ELSE 10 * Num(SubSeq(s, 1, Len(s) - 1)) + DigitVal(s[Len(s)])

IsLeap(y) == (y % 4 = 0 /\ y % 100 # 0) \/ y % 400 = 0

DaysInMonth(y, m) ==
    IF m = 2 THEN (IF IsLeap(y) THEN 29 ELSE 28)
    ELSE IF m \in {4, 6, 9, 11} THEN 30 ELSE 31

RECURSIVE DaysBeforeMonth(_, _)
DaysBeforeMonth(y, m) ==
    IF m = 1 THEN 0 ELSE DaysBeforeMonth(y, m - 1) + DaysInMonth(y, m - 1)

\* date(y, m, d).toordinal()
Ordinal(d) ==
    LET y1 == d.year - 1
    IN  y1 * 365 + (y1 \div 4) - (y1 \div 100) + (y1 \div 400)
        + DaysBeforeMonth(d.year, d.month) + d.day

\* The day number of a date: days since 2024-01-01.
DayNumber(d) == Ordinal(d) - Ordinal([year |-> 2024, month |-> 1, day |-> 1])

\* The index of the first c in s, or 0.
IndexOf(s, c) ==
    IF \E i \in 1..Len(s) : s[i] = c
    THEN CHOOSE i \in 1..Len(s) : s[i] = c /\ \A j \in 1..(i - 1) : s[j] # c
    ELSE 0

\* s.split(sep)[0]
FirstToken(s, sep) ==
    LET i == IndexOf(s, sep) IN IF i = 0 THEN s ELSE SubSeq(s, 1, i - 1)

\* Everything after the first sep of s (empty when there is none).
AfterFirst(s, sep) ==
    LET i == IndexOf(s, sep) IN IF i = 0 THEN <<>> ELSE SubSeq(s, i + 1, Len(s))

\* datetime.datetime.strptime(s, "%m/%d/%y"): None stands for ValueError.
\* %m is one or two digits, 1..12; %d one or two digits, 1..31; %y exactly
\* two digits, 00..68 in the 2000s and 69..99 in the 1900s.
StrptimeMDY(s) ==
    LET mm == FirstToken(s, "/")
        r1 == AfterFirst(s, "/")
        dd == FirstToken(r1, "/")
        yy == AfterFirst(r1, "/")
        m  == Num(mm)
        d  == Num(dd)
        y  == IF Num(yy) <= 68 THEN 2000 + Num(yy) ELSE 1900 + Num(yy)
    IN  IF /\ IndexOf(s, "/") # 0 /\ IndexOf(r1, "/") # 0
           /\ Len(mm) \in 1..2 /\ Len(dd) \in 1..2 /\ Len(yy) = 2
           /\ AllDigits(mm) /\ AllDigits(dd) /\ AllDigits(yy)
           /\ m \in 1..12 /\ d >= 1
           /\ d <= DaysInMonth(y, m)
        THEN Some([year |-> y, month |-> m, day |-> d])
        ELSE None

----------------------------------------------------------------------------
(* Configuration and the fixed metric list. *)

SiteSlug == "site"

\* The head of METRICS = MATH_METRICS + FRIEND_SALES_METRICS + ...
METRICS == <<"sign_up_percentage", "advocate_pages_shown",
             "advocate_impressions", "widget_click_percentage">>

\* CampaignMetricsStream.partitions, cut to the first two metrics.
partitions == [i \in 1..2 |-> [metric |-> METRICS[i]]]

\* The ids of the campaigns the server lists.
CampaignIds == {1, 2}

\* The contexts of the metrics stream: a child context merged with a partition.
Contexts == {[campaign_id |-> c, metric |-> partitions[i].metric] :
                c \in CampaignIds, i \in 1..Len(partitions)}

\* Mutant: the incremental state keyed by the metric alone.
StateKeyMetricOnly(ctx) == <<0, ctx.metric>>

\* state_partitioning_keys = ["campaign_id", "metric"]: the key of the
\* bookmark a context reads and advances.
StateKey(ctx) == <<ctx.campaign_id, ctx.metric>>

StateKeys == {StateKey(ctx) : ctx \in Contexts}

----------------------------------------------------------------------------
(* CampaignsStream *)

Campaigns_get_url_params(ctx, token) == [site_slug |-> SiteSlug]

\* Mutant: the child context carries a constant instead of the record's id.
get_child_context_const(record) == [campaign_id |-> 1]

get_child_context(record) == [campaign_id |-> record.id]

(* TrafficSourcesStream *)

TrafficSources_get_url_params(ctx, token) == [site_slug |-> SiteSlug]

----------------------------------------------------------------------------
(* TalkableStream *)

\* Python truthiness of an optional page token.
Truthy(token) == token # None /\ token[1] # 0

\* TalkableStream.get_next_page_token with next_page_token_jsonpath set:
\* the first match of $.next_page in the body, or None.
Talkable_get_next_page_token(body, previous_token) == body.next_page

----------------------------------------------------------------------------
(* CampaignMetricsStream *)

\* Mutant: month and day read in the other order ("%d/%m/%y").
post_process_dmy(row) ==
    LET d == StrptimeMDY(FirstToken(row.period, " "))
    IN  IF d = None THEN None
        ELSE Some([k \in DOMAIN row \cup {"date"} |->
                     IF k = "date"
                     THEN [year |-> d[1].year, month |-> d[1].day, day |-> d[1].month]
                     ELSE row[k]])

\* post_process: row["date"] = strptime(row["period"].split(' ')[0],
\* "%m/%d/%y"); None stands for the ValueError strptime raises.
post_process(row) ==
    LET d == StrptimeMDY(FirstToken(row.period, " "))
    IN  IF d = None THEN None
        ELSE Some([k \in DOMAIN row \cup {"date"} |->
                     IF k = "date" THEN d[1] ELSE row[k]])

\* self.get_starting_timestamp(context): the partition's bookmark as an
\* aware datetime, or None.
get_starting_timestamp(ctx) ==
    IF cursor[StateKey(ctx)] = None THEN None
    ELSE Some(Aware(cursor[StateKey(ctx)][1] * TicksPerDay))

\* Mutant: the configured start date is used even when a bookmark exists.
StartDatetimeConfigOnly(ctx, token) ==
    IF token = None THEN config_start ELSE token[1]

\* get_url_params, lines 111-114: where the window starts.
StartDatetime(ctx, token) ==
    IF token = None
    THEN (IF get_starting_timestamp(ctx) # None
          THEN get_starting_timestamp(ctx)[1] ELSE config_start)
    ELSE token[1]

\* Mutant: the window is not clipped at yesterday.
EndWallUnclipped(start) == start.wall + WindowDays * TicksPerDay

\* get_url_params, lines 115-116: yesterday in the start's timezone, and
\* the end of the window.
EndWall(start) ==
    LET yesterday == DatetimeNow(start.tz) - TicksPerDay
    IN  Min(start.wall + WindowDays * TicksPerDay, yesterday)

Metrics_get_url_params(ctx, token) ==
    LET start == StartDatetime(ctx, token)
    IN  [site_slug  |-> SiteSlug,
         campaign_ids |-> <<ctx.campaign_id>>,
         start_date |-> Strftime(start.wall),
         end_date   |-> Strftime(EndWall(start)),
         segment_by |-> "day"]

\* Mutant: the next window starts where this one started.
Metrics_get_next_page_token_stalled(params, previous_token) ==
    IF params.start_date <= params.end_date
    THEN Some(Strptime(params.start_date)) ELSE None

\* get_next_page_token: both dates are parsed back from the request's URL.
Metrics_get_next_page_token(params, previous_token) ==
    LET start_date == Strptime(params.start_date)
        end_date   == Strptime(params.end_date)
    IN  IF Strftime(start_date.wall) < Strftime(end_date.wall)
        THEN Some(end_date) ELSE None

\* Mutant: 429 falls into the client-error branch.
validate_response_429_fatal(status_code) ==
    IF 400 <= status_code /\ status_code < 500 THEN "FatalAPIError"
    ELSE IF 500 <= status_code /\ status_code < 600 THEN "RetriableAPIError"
    ELSE "ok"

\* validate_response: what is raised for a status code ("ok": nothing).
validate_response(status_code) ==
    IF status_code = 429 THEN "RetriableAPIError"
    ELSE IF 400 <= status_code /\ status_code < 500 THEN "FatalAPIError"
    ELSE IF 500 <= status_code /\ status_code < 600 THEN "RetriableAPIError"
    ELSE "ok"

----------------------------------------------------------------------------
(* The API server: the bodies it may answer with. *)

Chars(n) == <<Digits[(n \div 10) + 1], Digits[(n % 10) + 1]>>

\* The "period" texts of the rows the server holds, oldest first: three
\* days of 2024, the second without a time of day.
ServerPeriods ==
    << Chars(1) \o <<"/">> \o Chars(10) \o <<"/">> \o Chars(24) \o <<" ", "0", "0", ":", "0", "0">>,
       <<"4", "/">> \o Chars(19) \o <<"/">> \o Chars(24),
       Chars(7) \o <<"/">> \o Chars(27) \o <<"/">> \o Chars(24) \o <<" ", "0", "0", ":", "0", "0">> >>

\* A period text that is no "%m/%d/%y" date.
BadPeriod == <<"2", "0", "2", "4", "-", "0", "7", "-", "0", "1">>

PeriodDay(p) == DayNumber(StrptimeMDY(FirstToken(p, " "))[1])

InWindow(params, p) ==
    PeriodDay(p) >= params.start_date /\ PeriodDay(p) <= params.end_date

Row(p) == [period |-> p, plain |-> 1]

\* The rows a segmentize response may hold for a request: the server's rows
\* of the requested window, or one row whose period does not parse.
MetricBodies(params) ==
    { [i \in 1..Len(SelectSeq(ServerPeriods, LAMBDA p : InWindow(params, p))) |->
          Row(SelectSeq(ServerPeriods, LAMBDA p : InWindow(params, p))[i])],
      <<Row(BadPeriod)>> }

\* The page numbers the server names (0 is falsy in Python).
PageNumbers == {0, 1, 2}

\* $.next_page of the n-th page of a listing: absent, or a page number;
\* from the MaxRequests-th request on the server names no new page.
NextPages(n) ==
    IF n >= MaxRequests THEN {None, next_page_token}
    ELSE {None} \cup {Some(k) : k \in PageNumbers}

\* The bodies of a campaigns page: at most one campaign, and $.next_page.
CampaignBodies(n) ==
    {[records |-> r, next_page |-> np] :
        r \in {<<>>} \cup {<<[id |-> c]>> : c \in CampaignIds},
        np \in NextPages(n)}

TrafficBodies(n) ==
    {[records |-> <<[identifier |-> "src"]>>, next_page |-> np] :
        np \in NextPages(n)}

\* The status codes the server answers a metrics request with.
StatusCodes == {200, 404, 429, 503}

----------------------------------------------------------------------------
(* The framework's request loop. *)

\* Mutant: a repeated token ends the pagination silently.
LoopDetectedNever(token, previous_token) == FALSE

\* The pagination-loop fault: the new token is set and equals the previous.
LoopDetected(token, previous_token) ==
    token # None /\ token = previous_token

Terminal == {"done", "FatalAPIError", "RuntimeError", "ValueError"}

url_params(s, ctx, token) ==
    IF s = "campaigns" THEN Campaigns_get_url_params(ctx, token)
    ELSE IF s = "traffic_sources" THEN TrafficSources_get_url_params(ctx, token)
    ELSE Metrics_get_url_params(ctx[1], token)

\* prepare_request: the next request of the stream is built and sent.
Prepare ==
    /\ pc = "prepare"
    /\ request' = Some([stream |-> stream,
                        token  |-> next_page_token,
                        params |-> url_params(stream, context, next_page_token)])
    /\ prev_request' = IF nreq = 0 THEN None ELSE request
    /\ nreq' = nreq + 1
    /\ pc' = "await"
    /\ UNCHANGED <<now, ticked, localOffset, config_start, cursor, stream,
                   context, next_page_token, parent, call, ret>>

\* The bookmark of a partition after a page of rows: the latest date seen.
RECURSIVE Advance(_, _)
Advance(old, rows) ==
    IF rows = <<>> THEN old
    ELSE LET day == DayNumber(rows[1].date)
         IN  Advance(IF old = None THEN Some(day) ELSE Some(Max(old[1], day)),
                     Tail(rows))

\* The partition after ctx in the metrics stream's order, or None.
NextPartition(ctx) ==
    LET i == CHOOSE j \in 1..Len(partitions) : partitions[j].metric = ctx.metric
    IN  IF i < Len(partitions)
        THEN Some([campaign_id |-> ctx.campaign_id, metric |-> partitions[i + 1].metric])
        ELSE None

\* A metrics response: validate_response, post_process of every row, the
\* bookmark of the partition, get_next_page_token and the loop check.
MetricsRespond ==
    /\ stream = "campaign_metrics" /\ pc = "await"
    /\ \E status \in StatusCodes, body \in MetricBodies(request[1].params) :
        LET raised == validate_response(status)
            rows   == [i \in 1..Len(body) |-> post_process(body[i])]
            token  == Metrics_get_next_page_token(request[1].params, next_page_token)
        IN  IF raised = "RetriableAPIError"
            THEN UNCHANGED vars
            ELSE IF raised = "FatalAPIError"
            THEN /\ pc' = "FatalAPIError"
                 /\ UNCHANGED <<now, ticked, localOffset, config_start, cursor,
                                stream, context, next_page_token, request,
                                prev_request, nreq, parent, call, ret>>
            ELSE IF \E i \in 1..Len(rows) : rows[i] = None
            THEN /\ pc' = "ValueError"
                 /\ UNCHANGED <<now, ticked, localOffset, config_start, cursor,
                                stream, context, next_page_token, request,
                                prev_request, nreq, parent, call, ret>>
            ELSE
                 /\ cursor' = [cursor EXCEPT ![StateKey(context[1])] =
                                  Advance(@, [i \in 1..Len(rows) |-> rows[i][1]])]
                 /\ IF LoopDetected(token, next_page_token)
                    THEN /\ pc' = "RuntimeError"
                         /\ UNCHANGED <<stream, context, next_page_token, nreq>>
                    ELSE IF token # None
                    THEN /\ pc' = "prepare"
                         /\ next_page_token' = token
                         /\ UNCHANGED <<stream, context, nreq>>
                    ELSE IF NextPartition(context[1]) # None
                    THEN /\ pc' = "prepare"
                         /\ context' = NextPartition(context[1])
                         /\ next_page_token' = None
                         /\ nreq' = 0
                         /\ UNCHANGED stream
                    ELSE /\ pc' = "paginate"
                         /\ stream' = "campaigns"
                         /\ context' = None
                         /\ next_page_token' = parent[1].token
                         /\ nreq' = parent[1].nreq
                 /\ UNCHANGED <<now, ticked, localOffset, config_start, request,
                                prev_request, parent, call, ret>>

\* A campaigns page arrives; its record, if any, starts the child stream
\* under get_child_context(record), at the first partition.
CampaignsRespond ==
    /\ stream = "campaigns" /\ pc = "await"
    /\ \E body \in CampaignBodies(nreq) :
        /\ parent' = Some([body |-> body, token |-> next_page_token, nreq |-> nreq])
        /\ IF body.records = <<>>
           THEN /\ pc' = "paginate"
                /\ UNCHANGED <<stream, context, next_page_token, nreq>>
           ELSE /\ pc' = "prepare"
                /\ stream' = "campaign_metrics"
                /\ context' = Some([campaign_id |-> get_child_context(body.records[1]).campaign_id,
                                    metric |-> partitions[1].metric])
                /\ next_page_token' = None
                /\ nreq' = 0
    /\ UNCHANGED <<now, ticked, localOffset, config_start, cursor, request,
                   prev_request, call, ret>>

\* The end of a page of a top-level stream: the next token, the loop check,
\* and either the next request or the next stream.
PageDone(body) ==
    LET token == Talkable_get_next_page_token(body, next_page_token)
    IN  IF LoopDetected(token, next_page_token)
        THEN /\ pc' = "RuntimeError"
             /\ UNCHANGED <<stream, next_page_token, nreq>>
        ELSE IF Truthy(token)
        THEN /\ pc' = "prepare"
             /\ next_page_token' = token
             /\ UNCHANGED <<stream, nreq>>
        ELSE IF stream = "campaigns"
        THEN /\ pc' = "prepare"
             /\ stream' = "traffic_sources"
             /\ next_page_token' = None
             /\ nreq' = 0
        ELSE /\ pc' = "done"
             /\ UNCHANGED <<stream, next_page_token, nreq>>

CampaignsPageDone ==
    /\ stream = "campaigns" /\ pc = "paginate"
    /\ PageDone(parent[1].body)
    /\ UNCHANGED <<now, ticked, localOffset, config_start, cursor, context,
                   request, prev_request, parent, call, ret>>

TrafficSourcesRespond ==
    /\ stream = "traffic_sources" /\ pc = "await"
    /\ \E body \in TrafficBodies(nreq) : PageDone(body)
    /\ UNCHANGED <<now, ticked, localOffset, config_start, cursor, context,
                   request, prev_request, parent, call, ret>>

\* Time passes while the run is under way.  The clock is read only when a
\* request is built, so it is advanced just before one.
Tick ==
    /\ pc = "prepare"
    /\ ticked < MaxTicks
    /\ now' = now + 1
    /\ ticked' = ticked + 1
    /\ UNCHANGED <<localOffset, config_start, cursor, stream, pc, context,
                   next_page_token, request, prev_request, nreq, parent, call, ret>>

----------------------------------------------------------------------------
(* The run. *)

\* Configured start dates: three windows back, exactly one window before
\* yesterday, a few days back, yesterday, today and tomorrow.
StartDays == {MaxDay - 2 * WindowDays - 5, MaxDay - WindowDays - 1,
              MaxDay - 3, MaxDay - 1, MaxDay, MaxDay + 1}

\* Midnight of each of them, and late in the day for two.
StartWalls ==
    {d * TicksPerDay : d \in StartDays} \cup
    {d * TicksPerDay + TicksPerDay - 1 : d \in {MaxDay - WindowDays - 1, MaxDay - 1}}

\* Bookmarks left by an earlier run: none, or one partition bookmarked.
InitialCursors ==
    {[k \in StateKeys |-> None]} \cup
    {[k \in StateKeys |-> IF k = <<1, METRICS[1]>> THEN Some(d) ELSE None] :
        d \in {MaxDay - WindowDays - 20, MaxDay - 2}}

Init ==
    /\ now \in (MaxDay * TicksPerDay)..(MaxDay * TicksPerDay + TicksPerDay - 1)
    /\ ticked = 0
    /\ localOffset \in {-1, 0, 1}
    /\ config_start \in {Aware(w) : w \in StartWalls}
    /\ cursor \in InitialCursors
    /\ stream = "campaigns"
    /\ pc = "prepare"
    /\ context = None
    /\ next_page_token = None
    /\ request = None
    /\ prev_request = None
    /\ nreq = 0
    /\ parent = None
    /\ call = [fn |-> "none", arg |-> 0]
    /\ ret = None

Next ==
    \/ Prepare
    \/ MetricsRespond
    \/ CampaignsRespond
    \/ CampaignsPageDone
    \/ TrafficSourcesRespond
    \/ Tick

Spec == Init /\ [][Next]_vars

\* The run with the clock held still.
NextFixed ==
    \/ Prepare
    \/ MetricsRespond
    \/ CampaignsRespond
    \/ CampaignsPageDone
    \/ TrafficSourcesRespond

SpecFixed == Init /\ [][NextFixed]_vars

----------------------------------------------------------------------------
(* Single calls of validate_response and post_process. *)

\* A period text written from a month, a day and a two-digit year, zero
\* padded or not, followed by tail.
PeriodText(m, d, y, padded, tail) ==
    (IF padded \/ m >= 10 THEN Chars(m) ELSE <<Digits[m + 1]>>) \o <<"/">> \o
    (IF padded \/ d >= 10 THEN Chars(d) ELSE <<Digits[d + 1]>>) \o <<"/">> \o
    Chars(y) \o tail

\* What follows the date in a period: nothing, a time of day, another date.
Tails == { <<>>,
           <<" ", "0", "0", ":", "0", "0">>,
           <<" ">> \o Chars(3) \o <<"/">> \o Chars(16) \o <<"/">> \o Chars(25) }

PostProcessCalls ==
    {[fn |-> "post_process",
      arg |-> [period |-> PeriodText(m, d, y, padded, tail), plain |-> plain,
               formatted |-> "7"],
      of |-> [month |-> m, day |-> d, yy |-> y, tail |-> tail]] :
        m \in {1, 3, 12, 13}, d \in {1, 15, 29, 31}, y \in {0, 24, 68, 69, 99},
        padded \in BOOLEAN, tail \in Tails, plain \in {0, 7}}

ValidateCalls ==
    {[fn |-> "validate_response", arg |-> code] : code \in 100..MaxStatus}

InitFn ==
    /\ now = MaxDay * TicksPerDay
    /\ ticked = 0
    /\ localOffset = 0
    /\ config_start = Aware(0)
    /\ cursor = [k \in StateKeys |-> None]
    /\ stream = "campaign_metrics"
    /\ pc = "done"
    /\ context = None
    /\ next_page_token = None
    /\ request = None
    /\ prev_request = None
    /\ nreq = 0
    /\ parent = None
    /\ call \in ValidateCalls \cup PostProcessCalls
    /\ ret = None

CallValidateResponse ==
    /\ call.fn = "validate_response" /\ ret = None
    /\ ret' = Some(validate_response(call.arg))
    /\ UNCHANGED <<now, ticked, localOffset, config_start, cursor, stream, pc,
                   context, next_page_token, request, prev_request, nreq,
                   parent, call>>

CallPostProcess ==
    /\ call.fn = "post_process" /\ ret = None
    /\ ret' = Some(post_process(call.arg))
    /\ UNCHANGED <<now, ticked, localOffset, config_start, cursor, stream, pc,
                   context, next_page_token, request, prev_request, nreq,
                   parent, call>>

NextFn == CallValidateResponse \/ CallPostProcess

SpecFn == InitFn /\ [][NextFn]_vars

----------------------------------------------------------------------------
(* Properties. *)

\* A metrics request is in flight.
MetricsAwait ==
    stream = "campaign_metrics" /\ pc = "await" /\ request # None

\* Yesterday's date in the timezone the request's window was computed in:
\* UTC for a first request, local time for a request built from a token.
YesterdayOf(req) ==
    (DatetimeNow(IF req.token = None THEN "utc" ELSE "naive") - TicksPerDay)
        \div TicksPerDay

MetricsAnswered ==
    /\ stream = "campaign_metrics" /\ pc = "await"
    /\ pc' \notin {"await", "FatalAPIError", "ValueError"}

\* C2: each metrics request after the first starts at the end date of the
\* request before it, and a response yields a next token (the end date)
\* while start_date < end_date and ends the sequence once start_date >=
\* end_date.
C2_Pagination ==
    /\ [](MetricsAwait /\ prev_request # None =>
            request[1].params.start_date = prev_request[1].params.end_date)
    /\ [][MetricsAnswered =>
            LET p == request[1].params
            IN  IF p.start_date < p.end_date
                THEN /\ pc' = "prepare" /\ context' = context
                     /\ next_page_token' # None
                     /\ next_page_token'[1].wall \div TicksPerDay = p.end_date
                ELSE /\ pc' \in {"prepare", "paginate"}
                     /\ context' # context]_vars

\* The third request of a partition is in flight.
C2_Witness ==
    /\ MetricsAwait /\ nreq = 3 /\ prev_request # None
    /\ request[1].params.start_date = prev_request[1].params.end_date
    /\ request[1].params.start_date < request[1].params.end_date

\* C3: when the token computed from a response equals the token the request
\* was built from, the run ends in the pagination-loop fault: no two
\* successive requests of a stream carry the same token.
C3_LoopFault ==
    /\ [](/\ pc = "await" /\ request # None /\ prev_request # None
          /\ request[1].stream = prev_request[1].stream
          /\ request[1].token # None
          => request[1].token # prev_request[1].token)
    /\ [][(/\ stream = "campaigns" /\ pc = "paginate"
           /\ parent[1].body.next_page # None
           /\ parent[1].body.next_page = next_page_token)
          => pc' = "RuntimeError"]_vars

\* The fault was raised on a campaigns page that named the page it answered.
C3_Witness ==
    /\ pc = "RuntimeError" /\ stream = "campaigns"
    /\ parent[1].body.next_page = next_page_token

\* C4: 429 and 500..599 raise the retriable error, the other codes of
\* 400..499 the fatal error, every other code nothing.
C4_StatusClasses ==
    (call.fn = "validate_response" /\ ret # None) =>
        ret[1] = (IF call.arg \in {429} \cup 500..599 THEN "RetriableAPIError"
                  ELSE IF call.arg \in 400..499 THEN "FatalAPIError"
                  ELSE "ok")

C4_Witness ==
    call.fn = "validate_response" /\ call.arg = 429 /\ ret = Some("RetriableAPIError")

\* The bookmark of the context's own partition, looked up by its two keys.
OwnCursor ==
    LET k == <<context[1].campaign_id, context[1].metric>>
    IN  IF k \in DOMAIN cursor THEN cursor[k] ELSE None

\* C5: a step changes no bookmark but the one of the (campaign_id, metric)
\* pair being synced, and a partition without a bookmark of its own starts
\* at the configured start date whatever the other partitions hold.
C5_Partitioned ==
    /\ [][\A k \in DOMAIN cursor :
            cursor'[k] # cursor[k] =>
                /\ stream = "campaign_metrics" /\ context # None
                /\ k = <<context[1].campaign_id, context[1].metric>>]_vars
    /\ [](MetricsAwait /\ request[1].token = None /\ OwnCursor = None =>
            request[1].params.start_date = config_start.wall \div TicksPerDay)

\* Campaign 2 starts at the configured date while campaign 1 holds a
\* bookmark for the same metric.
C5_Witness ==
    /\ MetricsAwait /\ request[1].token = None
    /\ context[1].campaign_id = 2 /\ OwnCursor = None
    /\ cursor[<<1, context[1].metric>>] # None
    /\ cursor[<<1, context[1].metric>>][1] # config_start.wall \div TicksPerDay
    /\ request[1].params.start_date = config_start.wall \div TicksPerDay

\* C6: a request of the campaigns or traffic-sources stream built from a
\* next-page token carries that token as its page parameter.
C6_PageParameter ==
    (/\ stream \in {"campaigns", "traffic_sources"} /\ pc = "await"
     /\ next_page_token # None)
    => /\ "page" \in DOMAIN request[1].params
       /\ request[1].params["page"] = next_page_token[1]

\* C7: the child context of a campaign record is {campaign_id: its id},
\* and every metrics request under it carries exactly that one id.
C7_CampaignIds ==
    MetricsAwait =>
        /\ get_child_context(parent[1].body.records[1]) =
              [campaign_id |-> parent[1].body.records[1].id]
        /\ context[1].campaign_id = parent[1].body.records[1].id
        /\ request[1].params.campaign_ids = <<parent[1].body.records[1].id>>

\* A later page of the second metric of campaign 2.
C7_Witness ==
    /\ MetricsAwait /\ request[1].token # None
    /\ context[1].metric = METRICS[2]
    /\ parent[1].body.records[1].id = 2
    /\ request[1].params.campaign_ids = <<2>>

\* Whether month m, day d of the year written yy is a calendar date.
IsDate(m, d, yy) ==
    /\ m \in 1..12
    /\ d \in 1..(IF m \in {4, 6, 9, 11} THEN 30
                 ELSE IF m # 2 THEN 31
                 ELSE IF yy % 4 = 0 THEN 29 ELSE 28)

\* C8: post_process sets date to the month/day/two-digit-year date written
\* before the first space of period, whatever follows it, and keeps every
\* other field.
C8_PostProcess ==
    (call.fn = "post_process" /\ ret # None /\ IsDate(call.of.month, call.of.day, call.of.yy)) =>
        /\ ret[1] # None
        /\ ret[1][1].date = [year  |-> IF call.of.yy <= 68 THEN 2000 + call.of.yy
                                       ELSE 1900 + call.of.yy,
                            month |-> call.of.month,
                            day   |-> call.of.day]
        /\ DOMAIN ret[1][1] = DOMAIN call.arg \cup {"date"}
        /\ \A k \in DOMAIN call.arg : ret[1][1][k] = call.arg[k]

\* period "03/15/24 00:00" gave 2024-03-15.
C8_Witness ==
    /\ call.fn = "post_process" /\ ret # None /\ ret[1] # None
    /\ call.arg.period = <<"0", "3", "/", "1", "5", "/", "2", "4", " ", "0", "0", ":", "0", "0">>
    /\ ret[1][1].date = [year |-> 2024, month |-> 3, day |-> 15]

\* C9: a first request starts at the partition's bookmark when there is
\* one and at the configured start date otherwise; a later request starts
\* at its page token, whatever the bookmark and the configuration hold.
C9_WindowStart ==
    MetricsAwait =>
        request[1].params.start_date =
            IF request[1].token = None
            THEN (IF OwnCursor # None THEN OwnCursor[1]
                  ELSE config_start.wall \div TicksPerDay)
            ELSE request[1].token[1].wall \div TicksPerDay

\* A first request starts at a bookmark that differs from the configured
\* start date.
C9_Witness ==
    /\ MetricsAwait /\ request[1].token = None
    /\ OwnCursor # None
    /\ OwnCursor[1] # config_start.wall \div TicksPerDay
    /\ request[1].params.start_date = OwnCursor[1]

\* C10: with the clock held still, a token is later than the start date of
\* the request it follows, the loop fault is not raised in the metrics
\* stream, a partition whose first window starts on or after yesterday takes
\* one request, and any other partition ends on a request with
\* start_date = end_date = yesterday.
C10_Termination ==
    /\ [](stream = "campaign_metrics" =>
            /\ pc # "RuntimeError"
            /\ nreq <= 4
            /\ (pc = "prepare" /\ nreq > 0 =>
                  /\ next_page_token[1].wall \div TicksPerDay > request[1].params.start_date
                  /\ (nreq = 1 => request[1].params.start_date < YesterdayOf(request[1]))))
    /\ [][(MetricsAnswered /\ context' # context) =>
            LET p == request[1].params
            IN  \/ nreq = 1 /\ p.start_date >= YesterdayOf(request[1])
                \/ p.start_date = p.end_date /\ p.end_date = YesterdayOf(request[1])]_vars

====
